---- MODULE Spec2Model ----
(***************************************************************************)
(* Model of fco-backup-fetcher (src/src/main.rs): the feed poll cycle      *)
(* (poll_atom, fetch_all, discover_unannounced) with the ledger timestamp  *)
(* kept in the HEAD commit message, the bounded retry wrapper (retry) and  *)
(* the lazily built, restartable browser session (RestartableDriver).      *)
(***************************************************************************)
EXTENDS Integers, Sequences, FiniteSets, TLC

\* ------------------------------------------------------------------ bounds
NumUnits == 2      \* content units (countries) known to the site
MaxFeed == 3       \* entries the feed window holds
MaxClock == 3      \* wall-clock seconds the model lets pass
NumErrors == 3     \* distinct errors f can return
NumValues == 2     \* distinct values f can return
MaxCalls == 2      \* calls of get() or restart() one thread makes
MaxHistory == 2    \* commits in the archive's history
MaxMsgLines == 2   \* lines in the message argument of a commit
MaxUrl == 3        \* characters in a country's url
MaxPages == 2      \* pages fetch_country returns for a unit
NumContents == 2   \* distinct page contents
MaxRuns == 2       \* calls of fetch_country_dir in a row

\* --------------------------------------------------------------- constants
SecsPerMin == 60   \* "%FT%TZ" writes the time field by field
NoLink == 0        \* an entry with no link of type text/html
BadDate == -1      \* an entry whose updated text is not RFC3339

Units == 1..NumUnits

VARIABLES
    clock,        \* Utc::now(), whole seconds
    feed,         \* the atom feed as the site serves it now, first entry first
    head,         \* the archive's HEAD commit: [exists, author, msg]
    dirs,         \* the unit directories that exist under countries_root
    lastFetch,    \* unit -> clock when its pages were last written (-1: never)
    mode,         \* the subcommand that is running
    pc,           \* the running call's position
    todo,         \* the entries poll_atom's for loop has left, current one first
    country_list, \* the countries fetch_all's for loop has left
    log,          \* the external effects of the running top-level operation
    result,       \* how the last top-level operation ended
    owed,         \* entries an aborted incremental loop left uncommitted
    changed,      \* whether the site published since poll_atom read the feed
    new_entries   \* poll_atom's new_entries, as get_new_atom_entries returned it

pollVars == <<clock, feed, head, dirs, lastFetch, mode, pc, todo,
              country_list, log, result, owed, changed, new_entries>>

\* retry(f, on_error), one call at a time
VARIABLES
    r_pc,         \* where the call of retry is
    r_site,       \* which call of retry it is
    r_i,          \* the iterations of `for _ in 0..2` that are over
    r_err,        \* the error of the attempt that just failed
    errors,       \* retry's errors vector
    r_result,     \* what retry returned: [ok, value, errors]
    r_trace       \* the calls retry made so far: f with its outcome, on_error

retryVars == <<r_pc, r_site, r_i, r_err, errors, r_result, r_trace>>

\* RestartableDriver, shared by the threads that call get() and restart()
VARIABLES
    session,      \* what the Mutex holds: None, Some(Ok(session)), Some(Err)
    lock,         \* the thread that holds the Mutex, 0 when it is free
    t_pc,         \* thread -> where it is in get() or restart()
    t_call,       \* thread -> the calls it has made, the running one last
    t_built,      \* thread -> the driver_result its restart() holds
    t_ret,        \* thread -> what its last get() returned
    built,        \* how many times build_driver has been invoked
    t_n           \* thread -> the build_driver calls its running call has made

drvVars == <<session, lock, t_pc, t_call, t_built, t_ret, built, t_n>>

\* The archive's history as get_last_known_timestamp meets it
VARIABLES
    history,      \* the commits reachable from HEAD, oldest first, HEAD last
    stamp,        \* the time git_commit wrote into HEAD's marker (-1: not ours)
    recovered     \* what the last get_last_known_timestamp returned

ledgerVars == <<history, stamp, recovered>>

\* One content unit and the work tree, as fetch_country_dir meets them
VARIABLES
    url,          \* country.url, a string of characters
    platform,     \* the target of the build: std::path::is_separator differs
    pages,        \* what fetch_country returned: [title, content] per page
    tree,         \* the work tree: path -> "dir" or a file's content
    unit_ret,     \* what the last fetch_country_dir returned
    after         \* the unit directory as each fetch_country_dir left it

unitVars == <<url, platform, pages, tree, unit_ret, after>>

vars == <<pollVars, retryVars, drvVars, ledgerVars, unitVars>>

\* ---------------------------------------------------------- sequences
Rev(s) == [i \in 1..Len(s) |-> s[Len(s) + 1 - i]]

Range(s) == {s[i] : i \in 1..Len(s)}

\* The sequences over S of length n or less.
RECURSIVE SeqsUpTo(_, _)
SeqsUpTo(S, n) ==
    IF n = 0 THEN {<<>>}
    ELSE LET shorter == SeqsUpTo(S, n - 1)
         IN  shorter \cup {Append(q, x) : q \in {r \in shorter : Len(r) = n - 1}, x \in S}

\* The members of a set of numbers, smallest first.
RECURSIVE SetToSeq(_)
SetToSeq(S) ==
    IF S = {} THEN <<>>
    ELSE LET m == CHOOSE x \in S : \A y \in S : x <= y
         IN  <<m>> \o SetToSeq(S \ {m})

\* ---------------------------------------------------- ledger marker
\* A line of a commit message: whether it starts with FETCHED_AT_PREFIX, and
\* the text after the prefix (all of it when there is no prefix).
TextLine == [prefix |-> FALSE, rest |-> <<7>>]

EmptyLine == [prefix |-> FALSE, rest |-> <<>>]

\* Utc::now().format("%FT%TZ")
FormatTime(t) == <<t \div SecsPerMin, t % SecsPerMin>>

\* chrono::DateTime::parse_from_rfc3339
ParseTime(s) ==
    IF Len(s) = 2 /\ s[2] < SecsPerMin
    THEN [ok |-> TRUE, ts |-> s[1] * SecsPerMin + s[2]]
    ELSE [ok |-> FALSE, ts |-> 0]

MarkerLine(t) == [prefix |-> TRUE, rest |-> FormatTime(t)]

\* Mutant: the commit message without the marker paragraph.
CommitMessageBare(message, now) == message

\* format!("{}\n\n{}{}", message, FETCHED_AT_PREFIX, now)
CommitMessage(message, now) == message \o <<EmptyLine, MarkerLine(now)>>

\* git commit --allow-empty -m ...: the new commit becomes HEAD
git_commit(message, now) ==
    [exists |-> TRUE, author |-> "FCO Backup", msg |-> CommitMessage(message, now)]

\* Mutant: the lines are scanned first line first.
ScanLinesForward(lines, i) ==
    IF \A k \in 1..Len(lines) : ~(lines[k].prefix /\ ParseTime(lines[k].rest).ok)
    THEN [ok |-> FALSE, ts |-> 0]
    ELSE ParseTime(lines[CHOOSE k \in 1..Len(lines) :
                             /\ lines[k].prefix /\ ParseTime(lines[k].rest).ok
                             /\ \A j \in 1..(k - 1) :
                                    ~(lines[j].prefix /\ ParseTime(lines[j].rest).ok)].rest)

\* The for loop of get_last_known_timestamp over the lines, last line first.
RECURSIVE ScanLines(_, _)
ScanLines(lines, i) ==
    IF i = 0 THEN [ok |-> FALSE, ts |-> 0]
    ELSE IF lines[i].prefix /\ ParseTime(lines[i].rest).ok
         THEN ParseTime(lines[i].rest)
         ELSE ScanLines(lines, i - 1)

\* Mutant: without a marker the ledger is taken to be time 0.
get_last_known_timestamp_epoch(h) ==
    IF ~h.exists THEN [ok |-> TRUE, ts |-> 0]
    ELSE LET lines == h.msg \o <<EmptyLine, EmptyLine>>
         IN  [ok |-> TRUE, ts |-> ScanLines(lines, Len(lines)).ts]

\* git log --format=%B -n1 HEAD, split at "\n"; a repository without a commit
\* makes git log fail.
get_last_known_timestamp(h) ==
    IF ~h.exists THEN [ok |-> FALSE, ts |-> 0]
    ELSE LET lines == h.msg \o <<EmptyLine, EmptyLine>>
         IN  ScanLines(lines, Len(lines))

\* ------------------------------------------------------ change detection
\* Mutant: the filter without .rev(), the entries kept in feed order.
FilterNewFeedOrder(entries, last) ==
    IF \E i \in 1..Len(entries) : entries[i].updated = BadDate
    THEN [ok |-> FALSE, entries |-> <<>>]
    ELSE [ok |-> TRUE,
          entries |-> SelectSeq(entries, LAMBDA e : e.updated > last)]

\* Mutant: updated >= last_known_timestamp in place of >.
FilterNewInclusive(entries, last) ==
    IF \E i \in 1..Len(entries) : entries[i].updated = BadDate
    THEN [ok |-> FALSE, entries |-> <<>>]
    ELSE [ok |-> TRUE,
          entries |-> SelectSeq(Rev(entries), LAMBDA e : e.updated >= last)]

\* feed.entries().iter().rev().filter_map(...).collect::<Result<..>>()
FilterNew(entries, last) ==
    IF \E i \in 1..Len(entries) : entries[i].updated = BadDate
    THEN [ok |-> FALSE, entries |-> <<>>]
    ELSE [ok |-> TRUE,
          entries |-> SelectSeq(Rev(entries), LAMBDA e : e.updated > last)]

\* Mutant: the distinct urls are counted against the entries that have one.
has_duplicates_among_linked(entries) ==
    LET linked == {j \in 1..Len(entries) : entries[j].url # NoLink}
    IN  Cardinality({entries[i].url : i \in linked}) < Cardinality(linked)

\* Mutant: duplicates are never seen.
has_duplicates_never(entries) == FALSE

has_duplicates(entries) ==
    LET urls == {entries[i].url : i \in {j \in 1..Len(entries) : entries[j].url # NoLink}}
    IN  Cardinality(urls) < Len(entries)

\* Mutant: all_are_new is never set.
get_new_atom_entries_some_old(entries, h) ==
    LET last == get_last_known_timestamp(h)
        new == FilterNew(entries, last.ts)
    IN  IF ~last.ok \/ ~new.ok
        THEN [ok |-> FALSE, entries |-> <<>>, all_are_new |-> FALSE,
              error |-> IF ~last.ok THEN "ledger_error" ELSE "feed_error"]
        ELSE [ok |-> TRUE, entries |-> new.entries, all_are_new |-> FALSE,
              error |-> "none"]

\* get_new_atom_entries once the feed has been read: (new_entries, all_are_new)
get_new_atom_entries(entries, h) ==
    LET last == get_last_known_timestamp(h)
        new == FilterNew(entries, last.ts)
    IN  IF ~last.ok \/ ~new.ok
        THEN [ok |-> FALSE, entries |-> <<>>, all_are_new |-> FALSE,
              error |-> IF ~last.ok THEN "ledger_error" ELSE "feed_error"]
        ELSE [ok |-> TRUE, entries |-> new.entries,
              all_are_new |-> (Len(entries) = Len(new.entries)),
              error |-> "none"]

\* ------------------------------------------------------------ the site
\* The site publishes an entry: a second passes, the entry goes to the head of
\* the feed, stamped with the time, and the feed window drops what no longer
\* fits.
Publish ==
    /\ clock < MaxClock
    /\ clock' = clock + 1
    /\ \E u \in Units \cup {NoLink} :
          feed' = SubSeq(<<[url |-> u, updated |-> clock + 1]>> \o feed, 1,
                         IF Len(feed) < MaxFeed THEN Len(feed) + 1 ELSE MaxFeed)
    /\ changed' = TRUE
    /\ UNCHANGED <<retryVars, drvVars, ledgerVars, unitVars,
                   new_entries, owed, head, dirs, lastFetch, mode, pc, todo, country_list, log,
                   result>>

\* ------------------------------------------------------- control flow
IncPcs == {"inc_rm", "inc_fetch", "inc_add", "inc_commit", "inc_push"}

\* Mutant: the unit's directory is never removed before the refetch.
IncEnterNoRm(entries, d) == "inc_fetch"

\* The top of poll_atom's loop body: .find(text/html).unwrap() panics on an
\* entry without such a link; then if country_root.exists() { git_rm(..)? }
IncEnter(entries, d) ==
    IF Head(entries).url = NoLink THEN "panicked"
    ELSE IF Head(entries).url \in d THEN "inc_rm" ELSE "inc_fetch"

\* Mutant: the content root is never removed before the re-crawl.
RootEnterNoRm(d) == "fa_list"

\* if countries_root.exists() { git_rm(..)? } at the top of fetch_all and of
\* discover_unannounced's own part; git rm leaves no empty directory behind.
RootEnter(d) == IF d # {} THEN "fa_rm" ELSE "fa_list"

\* poll_atom returns Ok(()): to main, or to discover_unannounced, which goes on.
PollOk(m, d) ==
    IF m = "discover"
    THEN /\ mode' = "unannounced"
         /\ pc' = RootEnter(d)
         /\ result' = "run"
    ELSE /\ mode' = m
         /\ pc' = "idle"
         /\ result' = "ok"

Logged(op, u) == log' = Append(log, <<op, u>>)

Commits(l) == Cardinality({i \in 1..Len(l) : l[i][1] = "commit"})

\* -------------------------------------------------------- poll_atom
\* get_new_atom_entries: retry gives up on the feed after three attempts.
PollFeedError(m) ==
    /\ pc = "idle"
    /\ mode' = m
    /\ pc' = "idle"
    /\ result' = "feed_error"
    /\ log' = <<>>
    /\ owed' = {}
    /\ todo' = <<>>
    /\ UNCHANGED <<retryVars, drvVars, ledgerVars, unitVars,
                   changed, new_entries, clock, feed, head, dirs, lastFetch, country_list>>

\* poll_atom up to its first external effect: the feed is read, the ledger
\* timestamp recovered, the new entries filtered and the cycle classified.
PollStart(m) ==
    /\ pc = "idle"
    /\ log' = <<>>
    /\ owed' = IF result = "failed" /\ ~changed THEN owed ELSE {}
    /\ changed' = FALSE
    /\ new_entries' = get_new_atom_entries(feed, head).entries
    /\ LET r == get_new_atom_entries(feed, head)
       IN  IF ~r.ok
           THEN mode' = m /\ pc' = "idle" /\ result' = r.error /\ todo' = <<>>
           ELSE IF Len(r.entries) = 0
           THEN PollOk(m, dirs) /\ todo' = <<>>
           ELSE IF r.all_are_new \/ has_duplicates(r.entries)
           THEN mode' = m /\ pc' = RootEnter(dirs) /\ result' = "run" /\ todo' = <<>>
           ELSE /\ mode' = m
                /\ pc' = IncEnter(r.entries, dirs)
                /\ result' = "run"
                /\ todo' = r.entries
    /\ UNCHANGED <<retryVars, drvVars, ledgerVars, unitVars,
                   clock, feed, head, dirs, lastFetch, country_list>>

\* git_rm(&git_repo, &country_root)?
IncRm ==
    /\ pc = "inc_rm"
    /\ dirs' = dirs \ {Head(todo).url}
    /\ Logged("rm", Head(todo).url)
    /\ pc' = "inc_fetch"
    /\ UNCHANGED <<retryVars, drvVars, ledgerVars, unitVars,
                   changed, new_entries, clock, feed, head, lastFetch, mode, todo, country_list,
                   result, owed>>

\* fetch_country_dir(&driver, &countries_root, &country)?
IncFetch ==
    /\ pc = "inc_fetch"
    /\ dirs' = dirs \cup {Head(todo).url}
    /\ lastFetch' = [lastFetch EXCEPT ![Head(todo).url] = clock]
    /\ Logged("fetch", Head(todo).url)
    /\ pc' = "inc_add"
    /\ UNCHANGED <<retryVars, drvVars, ledgerVars, unitVars,
                   changed, new_entries, clock, feed, head, mode, todo, country_list, result, owed>>

\* git_add(&git_repo, &dir)?
IncAdd ==
    /\ pc = "inc_add"
    /\ Logged("add", Head(todo).url)
    /\ pc' = "inc_commit"
    /\ UNCHANGED <<retryVars, drvVars, ledgerVars, unitVars,
                   changed, new_entries, clock, feed, head, dirs, lastFetch, mode, todo,
                   country_list, result, owed>>

\* git_commit(&git_repo, "{name}: {summary}")?, then the next entry
IncCommit ==
    /\ pc = "inc_commit"
    /\ head' = git_commit(<<TextLine>>, clock)
    /\ Logged("commit", Head(todo).url)
    /\ todo' = Tail(todo)
    /\ pc' = IF Len(todo) = 1 THEN "inc_push" ELSE IncEnter(Tail(todo), dirs)
    /\ UNCHANGED <<retryVars, drvVars, ledgerVars, unitVars,
                   changed, new_entries, clock, feed, dirs, lastFetch, mode, country_list, result,
                   owed>>

\* git_push(&git_repo)?; Ok(())
IncPush ==
    /\ pc = "inc_push"
    /\ Logged("push", 0)
    /\ PollOk(mode, dirs)
    /\ UNCHANGED <<retryVars, drvVars, ledgerVars, unitVars,
                   changed, new_entries, clock, feed, head, dirs, lastFetch, todo, country_list,
                   owed>>

\* -------------------------------------- fetch_all, discover_unannounced
\* main's initial_import: fetch_all(.., "Initial import")
ImportStart ==
    /\ pc = "idle"
    /\ mode' = "import"
    /\ pc' = RootEnter(dirs)
    /\ result' = "run"
    /\ log' = <<>>
    /\ owed' = {}
    /\ todo' = <<>>
    /\ UNCHANGED <<retryVars, drvVars, ledgerVars, unitVars,
                   changed, new_entries, clock, feed, head, dirs, lastFetch, country_list>>

\* git_rm(&git_repo, &countries_root)?
FaRm ==
    /\ pc = "fa_rm"
    /\ dirs' = {}
    /\ Logged("rm_root", 0)
    /\ pc' = "fa_list"
    /\ UNCHANGED <<retryVars, drvVars, ledgerVars, unitVars,
                   changed, new_entries, clock, feed, head, lastFetch, mode, todo, country_list,
                   result, owed>>

\* What comes after the for loop over country_list.
AfterList == IF mode = "unannounced" THEN "du_check" ELSE "fa_commit"

\* retry(|| list_countries(&driver.get()?), || driver.restart())?: the site
\* lists its countries.
FaList ==
    /\ pc = "fa_list"
    /\ country_list' = SetToSeq(Units)
    /\ pc' = "fa_fetch"
    /\ Logged("list", 0)
    /\ UNCHANGED <<retryVars, drvVars, ledgerVars, unitVars,
                   changed, new_entries, clock, feed, head, dirs, lastFetch, mode, todo, result,
                   owed>>

\* let dir = fetch_country_dir(&driver, &countries_root, &country)?
FaFetch ==
    /\ pc = "fa_fetch"
    /\ dirs' = dirs \cup {Head(country_list)}
    /\ lastFetch' = [lastFetch EXCEPT ![Head(country_list)] = clock]
    /\ Logged("fetch", Head(country_list))
    /\ pc' = "fa_add"
    /\ UNCHANGED <<retryVars, drvVars, ledgerVars, unitVars,
                   changed, new_entries, clock, feed, head, mode, todo, country_list, result, owed>>

\* git_add(&git_repo, &dir)?, then the next country
FaAdd ==
    /\ pc = "fa_add"
    /\ Logged("add", Head(country_list))
    /\ country_list' = Tail(country_list)
    /\ pc' = IF Len(country_list) = 1 THEN AfterList ELSE "fa_fetch"
    /\ UNCHANGED <<retryVars, drvVars, ledgerVars, unitVars,
                   changed, new_entries, clock, feed, head, dirs, lastFetch, mode, todo, result,
                   owed>>

\* git_commit(&git_repo, &reason)?
FaCommit ==
    /\ pc = "fa_commit"
    /\ head' = git_commit(<<TextLine>>, clock)
    /\ Logged("commit", 0)
    /\ pc' = "fa_push"
    /\ UNCHANGED <<retryVars, drvVars, ledgerVars, unitVars,
                   changed, new_entries, clock, feed, dirs, lastFetch, mode, todo, country_list,
                   result, owed>>

\* git_push(&git_repo)?; Ok(()): fetch_all returns to main or, through
\* poll_atom, to whoever called poll_atom.
FaPush ==
    /\ pc = "fa_push"
    /\ Logged("push", 0)
    /\ PollOk(mode, dirs)
    /\ UNCHANGED <<retryVars, drvVars, ledgerVars, unitVars,
                   changed, new_entries, clock, feed, head, dirs, lastFetch, todo, country_list,
                   owed>>

\* discover_unannounced after its loop: get_new_atom_entries(git_repo)? (the
\* count only logs a warning) and git diff --name-only --cached.
DuCheck ==
    /\ pc = "du_check"
    /\ LET r == get_new_atom_entries(feed, head)
       IN  IF r.ok
           THEN pc' = "du_commit" /\ result' = "run"
           ELSE pc' = "idle" /\ result' = r.error
    /\ UNCHANGED <<retryVars, drvVars, ledgerVars, unitVars,
                   changed, new_entries, clock, feed, head, dirs, lastFetch, mode, todo,
                   country_list, log, owed>>

\* git_commit(&git_repo, message)?
DuCommit ==
    /\ pc = "du_commit"
    /\ head' = git_commit(<<TextLine>>, clock)
    /\ Logged("commit", 0)
    /\ pc' = "du_push"
    /\ UNCHANGED <<retryVars, drvVars, ledgerVars, unitVars,
                   changed, new_entries, clock, feed, dirs, lastFetch, mode, todo, country_list,
                   result, owed>>

\* git_push(&git_repo)?; Ok(())
DuPush ==
    /\ pc = "du_push"
    /\ Logged("push", 0)
    /\ pc' = "idle"
    /\ result' = "ok"
    /\ UNCHANGED <<retryVars, drvVars, ledgerVars, unitVars,
                   changed, new_entries, clock, feed, head, dirs, lastFetch, mode, todo,
                   country_list, owed>>

\* The external call the operation is at fails for good (a git command exits
\* non-zero, retry gives up on a fetch or on the listing): `?` returns the
\* error to main. What an incremental loop had not yet committed is owed.
Fail ==
    /\ pc \notin {"idle", "panicked"}
    /\ pc' = "idle"
    /\ result' = "failed"
    /\ owed' = IF pc \in IncPcs /\ Commits(log) >= 1 THEN Range(todo) ELSE {}
    /\ UNCHANGED <<retryVars, drvVars, ledgerVars, unitVars,
                   changed, new_entries, clock, feed, head, dirs, lastFetch, mode, todo,
                   country_list, log>>

InitPoll ==
    /\ clock = 0
    /\ feed = <<>>
    /\ head \in {[exists |-> FALSE, author |-> "none", msg |-> <<>>],
                 [exists |-> TRUE, author |-> "other", msg |-> <<TextLine>>]}
    /\ dirs = {}
    /\ lastFetch = [u \in Units |-> -1]
    /\ mode = "none"
    /\ pc = "idle"
    /\ todo = <<>>
    /\ country_list = <<>>
    /\ log = <<>>
    /\ result = "none"
    /\ owed = {}
    /\ changed = FALSE
    /\ new_entries = <<>>

NextPoll ==
    \/ Publish
    \/ \E m \in {"poll", "discover"} : PollFeedError(m) \/ PollStart(m)
    \/ IncRm \/ IncFetch \/ IncAdd \/ IncCommit \/ IncPush
    \/ ImportStart
    \/ FaRm \/ FaList \/ FaFetch \/ FaAdd \/ FaCommit \/ FaPush
    \/ DuCheck \/ DuCommit \/ DuPush
    \/ Fail

\* ------------------------------------------------- RestartableDriver
Threads == {1, 2}

NoSession == [st |-> "none", id |-> 0]

\* RestartableDriver::new: session: Arc::new(Mutex::new(None))
InitDriver ==
    /\ session = NoSession
    /\ lock = 0
    /\ t_pc = [t \in Threads |-> "idle"]
    /\ t_call = [t \in Threads |-> <<>>]
    /\ t_built = [t \in Threads |-> NoSession]
    /\ t_ret = [t \in Threads |-> NoSession]
    /\ built = 0
    /\ t_n = [t \in Threads |-> 0]

\* A thread calls driver.get() or driver.restart().
Call(t, op) ==
    /\ t_pc[t] = "idle"
    /\ Len(t_call[t]) < MaxCalls
    /\ t_call' = [t_call EXCEPT ![t] = Append(@, op)]
    /\ t_pc' = [t_pc EXCEPT ![t] = IF op = "get" THEN "get" ELSE "build"]
    /\ t_n' = [t_n EXCEPT ![t] = 0]
    /\ UNCHANGED <<pollVars, retryVars, ledgerVars, unitVars>>
    /\ UNCHANGED <<session, lock, t_built, t_ret, built>>

\* get: let maybe_s = self.session.lock().unwrap();
GetLock(t) ==
    /\ t_pc[t] = "get"
    /\ lock = 0
    /\ lock' = t
    /\ t_pc' = [t_pc EXCEPT ![t] = "get_locked"]
    /\ UNCHANGED <<pollVars, retryVars, ledgerVars, unitVars>>
    /\ UNCHANGED <<session, t_call, t_built, t_ret, built, t_n>>

\* get: match *maybe_s { Some(ref s) => return s.clone(), None => {} }; the
\* guard is dropped either way, and None goes on to self.restart().
GetRead(t) ==
    /\ t_pc[t] = "get_locked"
    /\ lock' = 0
    /\ IF session.st # "none"
       THEN /\ t_ret' = [t_ret EXCEPT ![t] = session]
            /\ t_pc' = [t_pc EXCEPT ![t] = "idle"]
       ELSE /\ t_ret' = t_ret
            /\ t_pc' = [t_pc EXCEPT ![t] = "build"]
    /\ UNCHANGED <<pollVars, retryVars, ledgerVars, unitVars>>
    /\ UNCHANGED <<session, t_call, t_built, built, t_n>>

\* restart: let driver_result = build_driver(); the factory starts a
\* session or fails.
Build(t) ==
    /\ t_pc[t] = "build"
    /\ built' = built + 1
    /\ t_n' = [t_n EXCEPT ![t] = @ + 1]
    /\ \E ok \in BOOLEAN :
          t_built' = [t_built EXCEPT ![t] =
                         IF ok THEN [st |-> "ok", id |-> built + 1]
                         ELSE [st |-> "err", id |-> 0]]
    /\ t_pc' = [t_pc EXCEPT ![t] = "store"]
    /\ UNCHANGED <<pollVars, retryVars, ledgerVars, unitVars>>
    /\ UNCHANGED <<session, lock, t_call, t_ret>>

\* restart: let mut session = self.session.lock().unwrap();
StoreLock(t) ==
    /\ t_pc[t] = "store"
    /\ lock = 0
    /\ lock' = t
    /\ t_pc' = [t_pc EXCEPT ![t] = "store_locked"]
    /\ UNCHANGED <<pollVars, retryVars, ledgerVars, unitVars>>
    /\ UNCHANGED <<session, t_call, t_built, t_ret, built, t_n>>

\* restart: *session = Some(driver_result); get() then calls self.get()
StoreWrite(t) ==
    /\ t_pc[t] = "store_locked"
    /\ session' = t_built[t]
    /\ lock' = 0
    /\ t_pc' = [t_pc EXCEPT ![t] =
                   IF t_call[t][Len(t_call[t])] = "get" THEN "get" ELSE "idle"]
    /\ UNCHANGED <<pollVars, retryVars, ledgerVars, unitVars>>
    /\ UNCHANGED <<t_call, t_built, t_ret, built, t_n>>

NextDriver ==
    \E t \in Threads :
        \/ \E op \in {"get", "restart"} : Call(t, op)
        \/ GetLock(t) \/ GetRead(t)
        \/ Build(t) \/ StoreLock(t) \/ StoreWrite(t)

\* ------------------------------------------------------------- retry
\* The call sites of retry: the feed (on_error is || {}), the country list and
\* a unit's pages (f starts with driver.get()?, on_error is driver.restart()).
\* The one thread of main is thread 1 of the driver.
Sites == {"feed", "list", "fetch"}

\* Mutant: one more round of the for loop.
LoopAttemptsMore == 2 + 1

LoopAttempts == 2

SessionError == 0

FOutcomes ==
    [ev : {"f"}, ok : {TRUE}, v : 1..NumValues]
        \cup [ev : {"f"}, ok : {FALSE}, v : 1..NumErrors]

NoResult == [set |-> FALSE, ok |-> FALSE, value |-> 0, errors |-> <<>>]

InitRetry ==
    /\ r_pc = "idle"
    /\ r_site = "none"
    /\ r_i = 0
    /\ r_err = 0
    /\ errors = <<>>
    /\ r_result = NoResult
    /\ r_trace = <<>>

\* retry is called: let mut errors = vec![]; the for loop is entered
RetryEnter ==
    /\ r_pc = "idle"
    /\ r_trace = <<>>
    /\ \A t \in Threads : t_pc[t] = "idle" /\ t_call[t] = <<>>
    /\ r_site' \in Sites
    /\ r_pc' = "loop"
    /\ errors' = <<>>
    /\ r_i' = 0
    /\ UNCHANGED <<r_err, r_result, r_trace>>
    /\ UNCHANGED <<pollVars, drvVars, ledgerVars, unitVars>>

\* Mutant: a failed attempt of the loop goes on without on_error().
AttemptedNoRecover(o) ==
    /\ r_trace' = Append(r_trace, o)
    /\ IF o.ok
       THEN /\ r_result' = [set |-> TRUE, ok |-> TRUE, value |-> o.v, errors |-> <<>>]
            /\ r_pc' = "done"
            /\ UNCHANGED <<r_err, errors>>
       ELSE IF r_i < LoopAttempts
       THEN /\ r_err' = o.v
            /\ r_pc' = "push"
            /\ UNCHANGED <<r_result, errors>>
       ELSE /\ errors' = Append(errors, o.v)
            /\ r_result' = [set |-> TRUE, ok |-> FALSE, value |-> 0,
                            errors |-> Append(errors, o.v)]
            /\ r_pc' = "done"
            /\ UNCHANGED r_err

\* What an attempt's f() does with its result, in the loop
\* (Ok(value) => return Ok(value); Err(err) => { on_error(); errors.push(err) })
\* and after it (f().map_err(|e| { errors.push(e); format!(.., errors) })).
Attempted(o) ==
    /\ r_trace' = Append(r_trace, o)
    /\ IF o.ok
       THEN /\ r_result' = [set |-> TRUE, ok |-> TRUE, value |-> o.v, errors |-> <<>>]
            /\ r_pc' = "done"
            /\ UNCHANGED <<r_err, errors>>
       ELSE IF r_i < LoopAttempts
       THEN /\ r_err' = o.v
            /\ r_pc' = "on_error"
            /\ UNCHANGED <<r_result, errors>>
       ELSE /\ errors' = Append(errors, o.v)
            /\ r_result' = [set |-> TRUE, ok |-> FALSE, value |-> 0,
                            errors |-> Append(errors, o.v)]
            /\ r_pc' = "done"
            /\ UNCHANGED r_err

\* f() at the feed: reqwest::get and Feed::read_from succeed or fail.
RetryAttemptFeed ==
    /\ r_pc = "loop"
    /\ r_site = "feed"
    /\ \E o \in FOutcomes : Attempted(o)
    /\ UNCHANGED <<r_site, r_i>>
    /\ UNCHANGED <<pollVars, drvVars, ledgerVars, unitVars>>

\* f() at the other sites starts with driver.get()
RetryAttemptGet ==
    /\ r_pc = "loop"
    /\ r_site # "feed"
    /\ r_pc' = "in_get"
    /\ t_call' = [t_call EXCEPT ![1] = Append(@, "get")]
    /\ t_pc' = [t_pc EXCEPT ![1] = "get"]
    /\ t_n' = [t_n EXCEPT ![1] = 0]
    /\ UNCHANGED <<r_site, r_i, r_err, errors, r_result, r_trace>>
    /\ UNCHANGED <<session, lock, t_built, t_ret, built>>
    /\ UNCHANGED <<pollVars, ledgerVars, unitVars>>

\* driver.get()? returned: its error is f's error, its session is used by
\* list_countries or fetch_country, which succeed or fail.
RetryAttemptUse ==
    /\ r_pc = "in_get"
    /\ t_pc[1] = "idle"
    /\ IF t_ret[1].st = "err"
       THEN Attempted([ev |-> "f", ok |-> FALSE, v |-> SessionError])
       ELSE \E o \in FOutcomes : Attempted(o)
    /\ UNCHANGED <<r_site, r_i>>
    /\ UNCHANGED <<pollVars, drvVars, ledgerVars, unitVars>>

\* on_error() at the feed: || {}
RetryOnErrorNothing ==
    /\ r_pc = "on_error"
    /\ r_site = "feed"
    /\ r_trace' = Append(r_trace, [ev |-> "on_error", ok |-> TRUE, v |-> 0])
    /\ r_pc' = "push"
    /\ UNCHANGED <<r_site, r_i, r_err, errors, r_result>>
    /\ UNCHANGED <<pollVars, drvVars, ledgerVars, unitVars>>

\* on_error() at the other sites: || driver.restart()
RetryOnErrorRestart ==
    /\ r_pc = "on_error"
    /\ r_site # "feed"
    /\ r_trace' = Append(r_trace, [ev |-> "on_error", ok |-> TRUE, v |-> 0])
    /\ r_pc' = "in_restart"
    /\ t_call' = [t_call EXCEPT ![1] = Append(@, "restart")]
    /\ t_pc' = [t_pc EXCEPT ![1] = "build"]
    /\ t_n' = [t_n EXCEPT ![1] = 0]
    /\ UNCHANGED <<r_site, r_i, r_err, errors, r_result>>
    /\ UNCHANGED <<session, lock, t_built, t_ret, built>>
    /\ UNCHANGED <<pollVars, ledgerVars, unitVars>>

\* driver.restart() returned
RetryRecovered ==
    /\ r_pc = "in_restart"
    /\ t_pc[1] = "idle"
    /\ r_pc' = "push"
    /\ UNCHANGED <<r_site, r_i, r_err, errors, r_result, r_trace>>
    /\ UNCHANGED <<pollVars, drvVars, ledgerVars, unitVars>>

\* errors.push(err), and the loop goes round or is left for the last f()
RetryPush ==
    /\ r_pc = "push"
    /\ errors' = Append(errors, r_err)
    /\ r_i' = r_i + 1
    /\ r_pc' = "loop"
    /\ UNCHANGED <<r_site, r_err, r_result, r_trace>>
    /\ UNCHANGED <<pollVars, drvVars, ledgerVars, unitVars>>

\* The steps of thread 1 inside driver.get() and driver.restart().
NextRetry ==
    \/ RetryEnter
    \/ RetryAttemptFeed \/ RetryAttemptGet \/ RetryAttemptUse
    \/ RetryOnErrorNothing \/ RetryOnErrorRestart \/ RetryRecovered
    \/ RetryPush
    \/ GetLock(1) \/ GetRead(1) \/ Build(1) \/ StoreLock(1) \/ StoreWrite(1)

\* ------------------------------------------------- the ledger in history
\* The commits of the other specifications are not entered in history: they
\* keep these variables as a fresh clone has them.
NoRecovery == [set |-> FALSE, ok |-> FALSE, ts |-> 0]

InitLedgerIdle ==
    /\ history = <<>>
    /\ stamp = -1
    /\ recovered = NoRecovery

\* Utc::now() at the commits: times on both sides of a minute's end.
LedgerTimes == {0, 1, SecsPerMin - 1, SecsPerMin, SecsPerMin + 1}

\* A line that starts with FETCHED_AT_PREFIX and goes on with no timestamp.
BadMarkerLine == [prefix |-> TRUE, rest |-> <<7>>]

\* The lines a commit's message argument is made of: text, nothing, and
\* lines that look like a marker, with a timestamp or without one.
MessageLines ==
    {TextLine, EmptyLine, BadMarkerLine, MarkerLine(0), MarkerLine(SecsPerMin)}

\* The message arguments of git_commit: the reason of fetch_all, or
\* "{country.name}: {summary}" with whatever the feed entry holds.
Messages == {m \in SeqsUpTo(MessageLines, MaxMsgLines) : Len(m) >= 1}

\* Time passes.
LedgerTick ==
    /\ \E t \in LedgerTimes : t > clock /\ clock' = t
    /\ UNCHANGED <<retryVars, drvVars, ledgerVars, unitVars,
                   changed, new_entries, feed, head, dirs, lastFetch, mode, pc,
                   todo, country_list, log, result, owed>>

\* git_commit(&git_repo, &message)
LedgerCommit ==
    /\ Len(history) < MaxHistory
    /\ \E m \in Messages : head' = git_commit(m, clock)
    /\ history' = Append(history, head')
    /\ stamp' = clock
    /\ recovered' = NoRecovery
    /\ UNCHANGED <<retryVars, drvVars, unitVars,
                   changed, new_entries, clock, feed, dirs, lastFetch, mode, pc,
                   todo, country_list, log, result, owed>>

\* Somebody else commits to the archive (the clone brings their commits in).
LedgerForeign ==
    /\ Len(history) < MaxHistory
    /\ head' = [exists |-> TRUE, author |-> "other", msg |-> <<TextLine>>]
    /\ history' = Append(history, head')
    /\ stamp' = -1
    /\ recovered' = NoRecovery
    /\ UNCHANGED <<retryVars, drvVars, unitVars,
                   changed, new_entries, clock, feed, dirs, lastFetch, mode, pc,
                   todo, country_list, log, result, owed>>

\* get_last_known_timestamp(&git_repo)
LedgerRecover ==
    /\ ~recovered.set
    /\ recovered' = [set |-> TRUE,
                     ok |-> get_last_known_timestamp(head).ok,
                     ts |-> get_last_known_timestamp(head).ts]
    /\ UNCHANGED <<pollVars, retryVars, drvVars, unitVars, history, stamp>>

NextLedger == LedgerTick \/ LedgerCommit \/ LedgerForeign \/ LedgerRecover

\* ------------------------------------------------- one unit on disk
\* Strings are sequences of characters, paths sequences of components.
countries_root == << <<"c", "o", "u", "n", "t", "r", "i", "e", "s">> >>

\* Another unit's directory and a page in it.
OtherUnit == Append(countries_root, <<"z">>)

OtherPage == Append(OtherUnit, <<"p">>)

DirNode == [kind |-> "dir", data |-> <<>>]

FileNode(content) == [kind |-> "file", data |-> content]

NoUnitRet == [set |-> FALSE, rm |-> FALSE, error |-> "none", slug |-> <<>>, dir |-> <<>>]

InitUnitIdle ==
    /\ url = <<>>
    /\ platform = "unix"
    /\ pages = <<>>
    /\ tree = <<>>
    /\ unit_ret = NoUnitRet
    /\ after = <<>>

\* str.split("/"): the pieces between the slashes, empty ones included
RECURSIVE Split(_)
Split(s) ==
    IF \A i \in 1..Len(s) : s[i] # "/"
    THEN <<s>>
    ELSE LET i == CHOOSE k \in 1..Len(s) :
                      s[k] = "/" /\ \A j \in 1..(k - 1) : s[j] # "/"
         IN  <<SubSeq(s, 1, i - 1)>> \o Split(SubSeq(s, i + 1, Len(s)))

\* std::path::is_separator
is_separator(c, plat) ==
    IF plat = "windows" THEN c \in {"/", "\\"} ELSE c = "/"

\* Mutant: the check without "..".
dir_name_dot_only(u, plat) ==
    LET name == Split(u)[Len(Split(u))]
    IN  IF name = <<".">>
        THEN [ok |-> FALSE, name |-> name]
        ELSE IF \E i \in 1..Len(name) : is_separator(name[i], plat)
        THEN [ok |-> FALSE, name |-> name]
        ELSE [ok |-> TRUE, name |-> name]

\* Country::dir_name
dir_name(u, plat) ==
    LET name == Split(u)[Len(Split(u))]
    IN  IF name = <<".">> \/ name = <<".", ".">>
        THEN [ok |-> FALSE, name |-> name]
        ELSE IF \E i \in 1..Len(name) : is_separator(name[i], plat)
        THEN [ok |-> FALSE, name |-> name]
        ELSE [ok |-> TRUE, name |-> name]

\* Path::join with a relative path of one component or none: joining ""
\* adds a trailing separator and no component.
PathJoin(path, name) == IF name = <<>> THEN path ELSE Append(path, name)

IsPrefix(p, q) == Len(p) <= Len(q) /\ SubSeq(q, 1, Len(p)) = p

\* str::to_lowercase
to_lowercase(s) == [i \in 1..Len(s) |-> IF s[i] = "A" THEN "a" ELSE s[i]]

\* str::split_whitespace: the runs of characters between the blanks
RECURSIVE split_whitespace(_)
split_whitespace(s) ==
    IF s = <<>> THEN <<>>
    ELSE IF s[1] = " " THEN split_whitespace(Tail(s))
    ELSE LET n == IF \A i \in 1..Len(s) : s[i] # " " THEN Len(s)
                  ELSE (CHOOSE k \in 1..Len(s) :
                            s[k] = " " /\ \A j \in 1..(k - 1) : s[j] # " ") - 1
         IN  <<SubSeq(s, 1, n)>> \o split_whitespace(SubSeq(s, n + 1, Len(s)))

\* part.replace(".", "_").replace("/", "_")
Replaced(part) ==
    [i \in 1..Len(part) |-> IF part[i] \in {".", "/"} THEN "_" ELSE part[i]]

\* The for loop of file_name over the parts.
RECURSIVE JoinParts(_, _)
JoinParts(filename, parts) ==
    IF parts = <<>> THEN filename
    ELSE JoinParts(filename \o (IF filename = <<>> THEN <<>> ELSE <<"-">>)
                       \o Replaced(Head(parts)),
                   Tail(parts))

\* TitleAndContent::file_name
file_name(title) == JoinParts(<<>>, split_whitespace(to_lowercase(title)))

\* std::fs::remove_dir_all(&dir), NotFound being Ok: dir goes with all below it
remove_dir_all(t, dir) ==
    [p \in {q \in DOMAIN t : ~IsPrefix(dir, q)} |-> t[p]]

\* std::fs::create_dir_all(&dir): dir and the directories above it
create_dir_all(t, dir) ==
    [p \in DOMAIN t \cup {SubSeq(dir, 1, n) : n \in 1..Len(dir)} |->
        IF p \in DOMAIN t THEN t[p] ELSE DirNode]

\* The for loop over the pages: File::create(&file_path) and write_all, which
\* fail on a path that is a directory.
RECURSIVE WritePages(_, _, _)
WritePages(t, dir, pgs) ==
    IF pgs = <<>> THEN [ok |-> TRUE, tree |-> t]
    ELSE LET file_path == PathJoin(dir, file_name(Head(pgs).title))
         IN  IF file_path \in DOMAIN t /\ t[file_path].kind = "dir"
             THEN [ok |-> FALSE, tree |-> t]
             ELSE WritePages(
                      [p \in DOMAIN t \cup {file_path} |->
                          IF p = file_path THEN FileNode(Head(pgs).content) ELSE t[p]],
                      dir, Tail(pgs))

\* Mutant helper: the files are opened for appending.
RECURSIVE WritePagesAppend(_, _, _)
WritePagesAppend(t, dir, pgs) ==
    IF pgs = <<>> THEN [ok |-> TRUE, tree |-> t]
    ELSE LET file_path == PathJoin(dir, file_name(Head(pgs).title))
         IN  IF file_path \in DOMAIN t /\ t[file_path].kind = "dir"
             THEN [ok |-> FALSE, tree |-> t]
             ELSE WritePagesAppend(
                      [p \in DOMAIN t \cup {file_path} |->
                          IF p # file_path THEN t[p]
                          ELSE IF p \in DOMAIN t
                          THEN FileNode(t[p].data \o Head(pgs).content)
                          ELSE FileNode(Head(pgs).content)],
                      dir, Tail(pgs))

\* Mutant: the directory is kept and its files are appended to.
fetch_country_dir_append(t, u, plat, pgs) ==
    LET dn == dir_name(u, plat)
        dir == PathJoin(countries_root, dn.name)
    IN  IF ~dn.ok
        THEN [tree |-> t,
              ret |-> [set |-> TRUE, rm |-> FALSE, error |-> "bad_path",
                       slug |-> dn.name, dir |-> <<>>]]
        ELSE LET w == WritePagesAppend(create_dir_all(t, dir), dir, pgs)
             IN  [tree |-> w.tree,
                  ret |-> [set |-> TRUE, rm |-> FALSE,
                           error |-> IF w.ok THEN "none" ELSE "io",
                           slug |-> dn.name, dir |-> dir]]

\* fetch_country_dir once retry has returned the pages: the directory is
\* removed, made again and filled, and returned.
fetch_country_dir(t, u, plat, pgs) ==
    LET dn == dir_name(u, plat)
        dir == PathJoin(countries_root, dn.name)
    IN  IF ~dn.ok
        THEN [tree |-> t,
              ret |-> [set |-> TRUE, rm |-> FALSE, error |-> "bad_path",
                       slug |-> dn.name, dir |-> <<>>]]
        ELSE LET w == WritePages(create_dir_all(remove_dir_all(t, dir), dir), dir, pgs)
             IN  [tree |-> w.tree,
                  ret |-> [set |-> TRUE, rm |-> FALSE,
                           error |-> IF w.ok THEN "none" ELSE "io",
                           slug |-> dn.name, dir |-> dir]]

\* poll_atom before it fetches the unit: country.dir_name()?, and git_rm of
\* country_root if it exists (git rm -r takes the files and the directories
\* they leave empty out of the work tree).
UnitGitRm ==
    /\ ~unit_ret.set /\ ~unit_ret.rm
    /\ LET dn == dir_name(url, platform)
           country_root == PathJoin(countries_root, dn.name)
       IN  IF ~dn.ok
           THEN /\ unit_ret' = [set |-> TRUE, rm |-> FALSE, error |-> "bad_path",
                                slug |-> dn.name, dir |-> <<>>]
                /\ tree' = tree
           ELSE /\ unit_ret' = [unit_ret EXCEPT !.rm = TRUE]
                /\ tree' = IF country_root \in DOMAIN tree
                           THEN remove_dir_all(tree, country_root)
                           ELSE tree
    /\ UNCHANGED <<pollVars, retryVars, drvVars, ledgerVars, url, platform, pages, after>>

\* fetch_country_dir(&driver, &countries_root, &country), from poll_atom
\* after its git_rm or from fetch_all, and once more with the same pages.
UnitFetch ==
    /\ Len(after) < MaxRuns
    /\ unit_ret.error # "bad_path"
    /\ LET r == fetch_country_dir(tree, url, platform, pages)
       IN  /\ tree' = r.tree
           /\ unit_ret' = r.ret
           /\ after' = Append(after, r.tree)
    /\ UNCHANGED <<pollVars, retryVars, drvVars, ledgerVars, url, platform, pages>>

NextUnit == UnitGitRm \/ UnitFetch

\* The characters of a url that matter to dir_name.
UrlChars == {"a", "-", ".", "/", "\\"}

\* Titles of pages: letters in both cases, blanks, dots and slashes.
Titles ==
    {<<>>, <<"a">>, <<"A">>, <<" ">>, <<"a", " ", "a">>, <<"a", ".">>,
     <<".", ".">>, <<"a", "/", "a">>}

Pages == [title : Titles, content : {<<c>> : c \in 1..NumContents}]

\* The work tree of a clone: nothing under countries yet, or another unit's
\* directory with a page.
BaseTrees ==
    {[p \in {} |-> DirNode],
     [p \in {countries_root, OtherUnit, OtherPage} |->
         IF p = OtherPage THEN FileNode(<<1>>) ELSE DirNode]}

\* The work trees the unit is fetched into: a base tree, with or before the
\* unit's directory, empty or holding files, one of them named like a page.
WithUnitDir(t, dir) ==
    {create_dir_all(t, dir)}
        \cup {[p \in DOMAIN create_dir_all(t, dir) \cup {Append(dir, n)} |->
                  IF p = Append(dir, n) THEN FileNode(<<2>>)
                  ELSE create_dir_all(t, dir)[p]] : n \in {<<"a">>, <<"o">>}}

InitTrees(u, plat) ==
    BaseTrees \cup
        (IF dir_name(u, plat).ok
         THEN UNION {WithUnitDir(t, PathJoin(countries_root, dir_name(u, plat).name)) :
                        t \in BaseTrees}
         ELSE {})

\* ---------------------------------------------------- specifications
Init == InitPoll /\ InitRetry /\ InitDriver /\ InitLedgerIdle /\ InitUnitIdle

\* The archive of the specifications that leave it alone: a fresh clone.
InitNoPoll == InitPoll /\ ~head.exists

Spec == Init /\ [][NextPoll]_vars

InitCalls == InitNoPoll /\ InitRetry /\ InitDriver /\ InitLedgerIdle /\ InitUnitIdle

SpecRetry == InitCalls /\ [][NextRetry]_vars

SpecDriver == InitCalls /\ [][NextDriver]_vars

\* The ledger: a clone without a commit, then commits and recoveries.
InitLedger == InitNoPoll /\ InitRetry /\ InitDriver /\ InitLedgerIdle /\ InitUnitIdle

SpecLedger == InitLedger /\ [][NextLedger]_vars

\* One unit: every url with a page or none, and one url with every list of
\* pages, on both platforms, into every work tree.
InitUnit ==
    /\ InitNoPoll
    /\ InitRetry
    /\ InitDriver
    /\ InitLedgerIdle
    /\ \/ /\ url \in SeqsUpTo(UrlChars, MaxUrl)
          /\ pages \in {<<>>, <<[title |-> <<"a">>, content |-> <<1>>]>>}
       \/ /\ url = <<"a">>
          /\ pages \in SeqsUpTo(Pages, MaxPages)
    /\ platform \in {"unix", "windows"}
    /\ tree \in InitTrees(url, platform)
    /\ unit_ret = NoUnitRet
    /\ after = <<>>

SpecUnit == InitUnit /\ [][NextUnit]_vars

\* retry runs on the one thread of main, and f, on_error and the Mutex (which
\* nothing else holds) return: a step that can be taken is taken.
SpecRetryFair == InitCalls /\ [][NextRetry]_vars /\ WF_vars(NextRetry)

\* ------------------------------------------- change detection, any input
\* get_new_atom_entries and poll_atom's classification are a function of the
\* feed and of HEAD: this specification applies poll_atom once to every feed
\* (in any order, with or without links and parseable dates), every HEAD and
\* every set of unit directories within the bounds.
Entries == [url : Units \cup {NoLink}, updated : {BadDate} \cup 0..MaxClock]

InitDetect ==
    /\ InitRetry
    /\ InitDriver
    /\ InitLedgerIdle
    /\ InitUnitIdle
    /\ clock = MaxClock
    /\ feed \in SeqsUpTo(Entries, MaxFeed)
    /\ head \in {[exists |-> FALSE, author |-> "none", msg |-> <<>>],
                 [exists |-> TRUE, author |-> "other", msg |-> <<TextLine>>]}
                \cup {git_commit(<<TextLine>>, t) : t \in 0..MaxClock}
    /\ dirs \in SUBSET Units
    /\ lastFetch = [u \in Units |-> IF u \in dirs THEN 0 ELSE -1]
    /\ mode = "none"
    /\ pc = "idle"
    /\ todo = <<>>
    /\ country_list = <<>>
    /\ log = <<>>
    /\ result = "none"
    /\ owed = {}
    /\ changed = FALSE
    /\ new_entries = <<>>

NextDetect == \E m \in {"poll", "discover"} : PollFeedError(m) \/ PollStart(m)

SpecDetect == InitDetect /\ [][NextDetect]_vars

\* ================================================================ claims
Ledger == get_last_known_timestamp(head)

Fetched(l, u) == \E i \in 1..Len(l) : l[i] = <<"fetch", u>>

\* C2: when a poll cycle was aborted after committing some but not all of its
\* incremental set, the next poll cycle over the same feed, once it has
\* returned Ok, has refetched every entry the aborted cycle left uncommitted.
C2_NextCycleReconciles ==
    (pc = "idle" /\ result = "ok" /\ mode \in {"poll", "unannounced"})
        => \A e \in owed : Fetched(log, e.url)

\* C3: after a poll cycle has returned Ok, every feed entry whose updatedAt is
\* at most the ledger timestamp recovered from HEAD has had its unit fetched
\* at or after that updatedAt.
C3_LedgerFullyApplied ==
    (pc = "idle" /\ result = "ok" /\ mode = "poll" /\ Ledger.ok)
        => \A i \in 1..Len(feed) :
              (feed[i].url # NoLink /\ feed[i].updated <= Ledger.ts)
                  => lastFetch[feed[i].url] >= feed[i].updated

RECURSIVE UnitOps(_)
UnitOps(entries) ==
    IF entries = <<>> THEN <<>>
    ELSE <<<<"fetch", Head(entries).url>>, <<"add", Head(entries).url>>,
           <<"commit", Head(entries).url>>>> \o UnitOps(Tail(entries))

NotRm(op) == op[1] # "rm"

\* How many of the current entry's steps the loop body has behind it.
StepsDone(p) ==
    IF p = "inc_add" THEN 1 ELSE IF p = "inc_commit" THEN 2 ELSE 0

IncRunning == mode = "poll" /\ pc \in IncPcs

IncDone ==
    /\ mode = "poll" /\ pc = "idle" /\ result = "ok"
    /\ Len(new_entries) >= 1
    /\ \A i \in 1..Len(log) : log[i][1] \notin {"list", "rm_root"}

\* Every staged removal opens a unit's block and is of the unit fetched next.
RmOpensBlock(l) ==
    \A i \in 1..Len(l) :
        l[i][1] = "rm" =>
            /\ i = 1 \/ l[i - 1][1] = "commit"
            /\ i < Len(l) => l[i + 1] = <<"fetch", l[i][2]>>

\* C7: an incremental cycle works through new_entries in order; per entry it
\* stages the removal of the unit's directory if that exists, then fetches,
\* stages and commits the unit before it touches the next entry; when every
\* step succeeded the log holds n commits and then one push, which is last.
C7_IncrementalOrder ==
    /\ IncRunning =>
          /\ SelectSeq(log, NotRm) =
                SubSeq(UnitOps(new_entries), 1,
                       3 * (Len(new_entries) - Len(todo)) + StepsDone(pc))
          /\ RmOpensBlock(log)
          /\ pc = "inc_fetch" =>
                /\ Head(todo).url \notin dirs
                /\ log # <<>> => log[Len(log)][1] \in {"rm", "commit"}
          /\ pc = "inc_rm" => Head(todo).url \in dirs
    /\ IncDone =>
          /\ SelectSeq(log, NotRm) = UnitOps(new_entries) \o <<<<"push", 0>>>>
          /\ RmOpensBlock(log)
          /\ Commits(log) = Len(new_entries)
          /\ Cardinality({i \in 1..Len(log) : log[i][1] = "push"}) = 1

\* An incremental cycle over two entries ended Ok, one unit with a staged
\* removal and one without.
C7_Witness ==
    /\ IncDone
    /\ Len(new_entries) = 2
    /\ Cardinality({i \in 1..Len(log) : log[i][1] = "rm"}) = 1

EngineHead == head.exists /\ head.author = "FCO Backup"

\* C9: every commit the engine makes ends in a blank line and the marker line
\* of the commit time, and while HEAD is an engine commit the ledger
\* timestamp is recovered from it.
C9_CommitsCarryMarker ==
    /\ [](EngineHead =>
            /\ Ledger.ok
            /\ Len(head.msg) >= 3
            /\ head.msg[Len(head.msg) - 1] = EmptyLine
            /\ head.msg[Len(head.msg)].prefix
            /\ ParseTime(head.msg[Len(head.msg)].rest) = [ok |-> TRUE, ts |-> Ledger.ts])
    /\ [][head' # head =>
            /\ EngineHead'
            /\ Ledger'.ok /\ Ledger'.ts = clock
            /\ Commits(log') = Commits(log) + 1]_vars

\* HEAD is the commit of a unit, of a full resync and of discover_unannounced.
C9_Witness ==
    /\ EngineHead
    /\ mode = "unannounced" /\ pc = "du_push"
    /\ clock >= 2

\* ------------------------------------------------ classification claims
\* poll_atom has read the feed and classified it; feed and HEAD are those it
\* read (SpecDetect changes neither).
Classified == mode \in {"poll", "discover", "unannounced"} /\ result # "feed_error"

NoBadDate == \A i \in 1..Len(feed) : feed[i].updated # BadDate

\* The feed positions of the entries newer than the ledger timestamp.
NewAt == {i \in 1..Len(feed) : feed[i].updated > Ledger.ts}

FullResync == mode \in {"poll", "discover"} /\ pc \in {"fa_rm", "fa_list"} /\ result = "run"

Incremental == mode \in {"poll", "discover"} /\ pc \in IncPcs /\ result = "run"

NoWork ==
    \/ mode = "poll" /\ pc = "idle" /\ result = "ok"
    \/ mode = "unannounced" /\ pc \in {"fa_rm", "fa_list"}

\* The claim of C4 as the spec states it: every feed, the empty one too.
C4_AllNewAnyLength ==
    (Classified /\ mode = "poll" /\ Ledger.ok /\ Cardinality(NewAt) = Len(feed))
        => FullResync

\* C4: for every feed with at least one entry in which every entry is newer
\* than the ledger timestamp, the cycle is classified as a full resync.
C4_AllNewIsFullResync ==
    (Classified /\ Ledger.ok /\ Len(feed) >= 1 /\ Cardinality(NewAt) = Len(feed))
        => FullResync

\* Every entry of a three-entry feed is new and the cycle is a full resync.
C4_Witness ==
    /\ Classified /\ Ledger.ok /\ Len(feed) = 3 /\ Cardinality(NewAt) = 3
    /\ FullResync

\* Two new entries whose text/html links are the same URL.
DupUrl ==
    \E i, j \in NewAt : i # j /\ feed[i].url # NoLink /\ feed[i].url = feed[j].url

AllLinked == \A i \in NewAt : feed[i].url # NoLink

\* The claim of C5 as stated: duplicates give a full resync, and a filtered
\* set short of the whole feed without two equal URLs does not.
C5_DuplicatesIffFullResync ==
    (Classified /\ mode = "poll" /\ Ledger.ok /\ NoBadDate) =>
        /\ DupUrl => FullResync
        /\ (Cardinality(NewAt) < Len(feed) /\ ~DupUrl) => ~FullResync

\* C5: a filtered set with two entries of the same URL is classified as a
\* full resync whatever else it holds; a filtered set that does not span the
\* feed, has no two entries of the same URL and whose entries all have a
\* text/html link is not.
C5_DuplicatesFullResync ==
    (Classified /\ Ledger.ok /\ NoBadDate) =>
        /\ DupUrl => FullResync
        /\ (Cardinality(NewAt) < Len(feed) /\ ~DupUrl /\ AllLinked) => ~FullResync

\* Two new entries of one URL next to an old entry: only the duplicate makes
\* the cycle a full resync.
C5_Witness ==
    /\ Classified /\ Ledger.ok /\ NoBadDate /\ DupUrl /\ FullResync
    /\ Cardinality(NewAt) = 2
    /\ Len(feed) = 3

Count(q, e) == Cardinality({i \in 1..Len(q) : q[i] = e})

OldestFirst(q) == \A i, j \in 1..Len(q) : i < j => q[i].updated <= q[j].updated

NewestFirst(q) == \A i, j \in 1..Len(q) : i < j => q[i].updated >= q[j].updated

\* The entries at the positions NewAt, last feed position first.
RECURSIVE NewFromEnd(_)
NewFromEnd(i) ==
    IF i = 0 THEN <<>>
    ELSE (IF i \in NewAt THEN <<feed[i]>> ELSE <<>>) \o NewFromEnd(i - 1)

\* The claim of C6 as stated: whatever the order of the feed, the entries
\* handed to the incremental loop are the new ones, oldest first.
C6_OldestFirstAnyFeed ==
    (Classified /\ mode = "poll" /\ Ledger.ok /\ NoBadDate /\ ~DupUrl /\ Cardinality(NewAt) < Len(feed))
        => /\ Incremental \/ NoWork
           /\ \A e \in Entries : Count(todo, e) = Cardinality({i \in NewAt : feed[i] = e})
           /\ OldestFirst(todo)

\* C6: for a feed whose filtered set has no two entries of the same URL, has
\* a text/html link in every entry and does not span the feed, the incremental
\* loop is handed exactly the entries newer than the ledger timestamp, in
\* reverse feed order: oldest first when the feed lists newest first.
C6_ReverseFeedOrder ==
    (Classified /\ Ledger.ok /\ NoBadDate /\ ~DupUrl /\ AllLinked
        /\ Cardinality(NewAt) < Len(feed))
        => /\ Incremental \/ NoWork
           /\ todo = NewFromEnd(Len(feed))
           /\ new_entries = todo
           /\ NewestFirst(feed) => OldestFirst(todo)

\* Two new entries of different times and units are handed to the loop.
C6_Witness ==
    /\ Incremental /\ Ledger.ok /\ Len(todo) = 2 /\ Len(feed) = 3
    /\ todo[1].updated < todo[2].updated
    /\ NewestFirst(feed)

\* C8: when poll_atom has read the feed and no entry is newer than the ledger
\* timestamp, the cycle returns Ok with nothing fetched, staged, committed or
\* pushed and with the archive (HEAD, directories, pages) as it was.
C8_NoNewEntriesNoWork ==
    [][(pc = "idle" /\ mode' \in {"poll", "discover", "unannounced"}
            /\ result' # "feed_error" /\ Ledger.ok /\ NoBadDate /\ NewAt = {})
        => /\ log' = <<>>
           /\ UNCHANGED <<head, dirs, lastFetch, feed, clock>>
           /\ Ledger' = Ledger
           /\ NoWork']_vars

\* A cycle over a feed of old entries and an archive with directories ended.
C8_Witness ==
    /\ mode = "poll" /\ pc = "idle" /\ result = "ok" /\ log = <<>>
    /\ Ledger.ok /\ NoBadDate /\ NewAt = {} /\ Len(feed) >= 2 /\ dirs # {}

\* ------------------------------------------------------- retry claims
IsF(e) == e.ev = "f"

FCalls == SelectSeq(r_trace, IsF)

\* C1: retry invokes f at most three times and stops at the first success,
\* which it returns; when all three attempts fail it returns an error made of
\* exactly the three errors, in the order of the attempts.
C1_RetryBudget ==
    /\ Len(FCalls) <= 3
    /\ \A i \in 1..Len(FCalls) :
          FCalls[i].ok =>
              /\ i = Len(FCalls)
              /\ r_result = [set |-> TRUE, ok |-> TRUE, value |-> FCalls[i].v,
                             errors |-> <<>>]
    /\ (Len(FCalls) = 3 /\ \A i \in 1..3 : ~FCalls[i].ok) =>
          r_result = [set |-> TRUE, ok |-> FALSE, value |-> 0,
                      errors |-> <<FCalls[1].v, FCalls[2].v, FCalls[3].v>>]
    /\ r_result.set =>
          /\ r_pc = "done"
          /\ FCalls # <<>>
          /\ r_result.ok = FCalls[Len(FCalls)].ok
          /\ ~r_result.ok => Len(FCalls) = 3

\* Three attempts failed with three different errors.
C1_Witness ==
    /\ r_result.set /\ ~r_result.ok
    /\ Len(r_result.errors) = 3
    /\ Cardinality(Range(r_result.errors)) = 3

\* ------------------------------------------------------ driver claims
\* C10: when two threads each call get() once on a handle that held no
\* session and both calls have returned, build_driver was invoked once.
C10_OneFactoryCall ==
    (\A t \in Threads : t_call[t] = <<"get">> /\ t_pc[t] = "idle") => built = 1

\* ------------------------------------------------------------------ C11
\* The sessions the factory created that have not been dropped: the one the
\* Mutex holds and the driver_result a restart() has built and not yet stored
\* (the store drops the value it overwrites).
LiveSessions ==
    (IF session.st = "ok" THEN {session.id} ELSE {})
        \cup {t_built[t].id : t \in {u \in Threads :
                                      /\ t_pc[u] \in {"store", "store_locked"}
                                      /\ t_built[u].st = "ok"}}

\* C11: restart() releases the session the handle holds before the factory
\* creates the replacement, so two sessions created by the handle never exist
\* at the same time.
C11_ReleaseBeforeReplace == Cardinality(LiveSessions) <= 1

\* ------------------------------------------------------------------ C12
\* The calls of f among the first i calls retry made.
NumF(i) == Cardinality({j \in 1..i : r_trace[j].ev = "f"})

\* on_error() runs straight after a failed first or second attempt and
\* nowhere else, and once per failure; a success or the third attempt ends
\* the call.
RecoveryBetweenAttempts ==
    \A i \in 1..Len(r_trace) :
        LET e == r_trace[i]
        IN  /\ e.ev = "on_error" =>
                /\ i > 1
                /\ r_trace[i - 1].ev = "f"
                /\ ~r_trace[i - 1].ok
                /\ NumF(i - 1) <= 2
            /\ (e.ev = "f" /\ ~e.ok /\ NumF(i) <= 2) =>
                IF i < Len(r_trace) THEN r_trace[i + 1].ev = "on_error"
                ELSE r_pc = "on_error"
            /\ (e.ev = "f" /\ (e.ok \/ NumF(i) = 3)) =>
                i = Len(r_trace) /\ r_pc = "done"

\* driver.restart() has returned after storing a failed build_driver().
RecoveryFailed ==
    /\ r_pc = "in_restart"
    /\ t_pc[1] = "idle"
    /\ session.st = "err"

\* C12: retry runs the recovery action exactly once between a failed attempt
\* and the next one (after the first and after the second failure, never
\* after a success or after the third failure), and a recovery that failed
\* is followed by the next attempt all the same.
C12_RecoveryOncePerFailure ==
    /\ []RecoveryBetweenAttempts
    /\ \A n \in 1..2 :
           (RecoveryFailed /\ NumF(Len(r_trace)) = n) ~> (NumF(Len(r_trace)) = n + 1)

\* The session served the first attempt, which failed; the restart failed to
\* build a new one; the second attempt ran and got the build's error.
C12_Witness ==
    /\ Len(r_trace) >= 3
    /\ r_trace[1].ev = "f" /\ r_trace[1].v # SessionError
    /\ r_trace[2].ev = "on_error"
    /\ r_trace[3] = [ev |-> "f", ok |-> FALSE, v |-> SessionError]

\* ------------------------------------------------------------------ C13
\* C13: a commit whose marker git_commit wrote for time T, followed by
\* get_last_known_timestamp on that commit, gives exactly T, whatever lines
\* the message argument holds, marker-like ones included.
C13_LedgerRoundTrip ==
    (recovered.set /\ stamp >= 0) => (recovered.ok /\ recovered.ts = stamp)

\* The message starts with a line that is a well-formed marker of another
\* time, the commit was stamped past the first minute, and was recovered.
C13_Witness ==
    /\ recovered.set
    /\ stamp = SecsPerMin + 1
    /\ head.msg[1] = MarkerLine(0)
    /\ recovered.ts = SecsPerMin + 1

\* ------------------------------------------------------------------ C14
\* C14: fetch_country_dir run twice in a row for the same unit with the same
\* pages leaves the files and contents that the first run left, whatever
\* the directory held before.
C14_ReplaceIdempotent == Len(after) = 2 => after[2] = after[1]

\* Two runs that wrote two pages with different titles and contents into
\* the file they both name.
C14_Witness ==
    /\ Len(after) = 2
    /\ unit_ret.error = "none"
    /\ Len(pages) = 2
    /\ pages[1].title # pages[2].title
    /\ pages[1].content # pages[2].content
    /\ file_name(pages[1].title) = file_name(pages[2].title)
    /\ after[2][Append(unit_ret.dir, file_name(pages[1].title))] = FileNode(pages[2].content)

\* ------------------------------------------------------------------ C15
\* The slug of a url: what follows its last slash, all of it without one.
Slug(u) ==
    LET slashes == {i \in 1..Len(u) : u[i] = "/"}
        last == IF slashes = {} THEN 0
                ELSE CHOOSE i \in slashes : \A j \in slashes : j <= i
    IN  SubSeq(u, last + 1, Len(u))

HasSeparator(name, plat) ==
    \E i \in 1..Len(name) :
        name[i] = "/" \/ (plat = "windows" /\ name[i] = "\\")

\* dir_name has been applied to the url.
DirNameApplied == unit_ret.set \/ unit_ret.rm

\* C15: the slug of a url is rejected with an error when it is "." or ".."
\* or holds a path separator of the platform, and otherwise it is accepted
\* and returned as it is; a rejected slug yields no directory.
C15_SlugValidation ==
    DirNameApplied =>
        IF \/ Slug(url) \in {<<".">>, <<".", ".">>}
           \/ HasSeparator(Slug(url), platform)
        THEN /\ unit_ret.error = "bad_path"
             /\ unit_ret.dir = <<>>
             /\ \A i \in 1..Len(after) : after[i] = tree
        ELSE /\ unit_ret.error # "bad_path"
             /\ unit_ret.set => unit_ret.slug = Slug(url)

\* The slug ".." at the end of a longer url was rejected.
C15_Witness ==
    /\ unit_ret.set
    /\ unit_ret.error = "bad_path"
    /\ url = <<"/", ".", ".">>

\* ------------------------------------------------------------------ C16
\* The commits of the history whose message carries a marker.
Marked == {i \in 1..Len(history) : get_last_known_timestamp(history[i]).ok}

\* C16: get_last_known_timestamp returns the time in the marker of the newest
\* commit of the reachable history that carries one, and fails only when no
\* commit of the history carries one.
C16_NewestMarkerInHistory ==
    recovered.set =>
        IF Marked = {} THEN ~recovered.ok
        ELSE LET newest == CHOOSE i \in Marked : \A j \in Marked : j <= i
             IN  /\ recovered.ok
                 /\ recovered.ts = get_last_known_timestamp(history[newest]).ts

\* ------------------------------------------------------------------ C17
\* The get() that f made on the one thread of main has returned.
GetReturned == r_pc = "in_get" /\ t_pc[1] = "idle"

\* C17: a get() calls build_driver once when the handle holds no live
\* session (None, or the Err of the last build) and not at all when it holds
\* a live one, which it returns; the Err of a build goes to the caller. On
\* one thread a get() that returns Err met no live session, so it has built
\* once, and one that returns a session has built once or not at all.
C17_FactoryOncePerGet ==
    GetReturned =>
        /\ t_ret[1] = session
        /\ IF t_ret[1].st = "ok" THEN t_n[1] \in {0, 1} ELSE t_n[1] = 1

\* ------------------------------------------------------------------ C18
FaPcs == {"fa_rm", "fa_list", "fa_fetch", "fa_add", "fa_commit", "fa_push"}

\* fetch_all is running, from main or from poll_atom.
FullRunning == mode \in {"import", "poll", "discover"} /\ pc \in FaPcs

\* fetch_all returned Ok to main.
FullDone ==
    /\ mode \in {"import", "poll"}
    /\ pc = "idle" /\ result = "ok"
    /\ \E i \in 1..Len(log) : log[i][1] = "list"

RECURSIVE ListOps(_)
ListOps(units) ==
    IF units = <<>> THEN <<>>
    ELSE <<<<"fetch", Head(units)>>, <<"add", Head(units)>>>> \o ListOps(Tail(units))

\* A full resync from the listing on, when every step succeeds.
FullOps ==
    <<<<"list", 0>>>> \o ListOps(SetToSeq(Units)) \o <<<<"commit", 0>>, <<"push", 0>>>>

\* The log after the staged removal of the content root, if there was one.
AfterRootRm ==
    IF log # <<>> /\ log[1] = <<"rm_root", 0>> THEN Tail(log) ELSE log

\* How much of FullOps is behind fetch_all at p.
FullProgress(p) ==
    IF p \in {"fa_rm", "fa_list"} THEN 0
    ELSE IF p = "fa_fetch" THEN 1 + 2 * (NumUnits - Len(country_list))
    ELSE IF p = "fa_add" THEN 2 + 2 * (NumUnits - Len(country_list))
    ELSE IF p = "fa_commit" THEN 1 + 2 * NumUnits
    ELSE 2 + 2 * NumUnits

FullInOrder ==
    /\ FullRunning =>
          /\ AfterRootRm = SubSeq(FullOps, 1, FullProgress(pc))
          /\ pc = "fa_rm" => log = <<>> /\ dirs # {}
          /\ pc = "fa_list" => dirs = {}
    /\ FullDone => AfterRootRm = FullOps

\* The listing, a unit's fetch or a staging step of fetch_all fails.
FullFailsEarly ==
    /\ FullRunning
    /\ pc \in {"fa_rm", "fa_list", "fa_fetch", "fa_add"}
    /\ pc' = "idle" /\ result' = "failed"

\* C18: in a full resync the removal of the content root is staged before
\* any unit is fetched, every listed unit is fetched and staged before the one
\* commit, and the one push follows the commit; when the listing, a fetch or
\* a staging step fails, the cycle makes no commit and no push.
C18_FullResyncOrder ==
    /\ []FullInOrder
    /\ [][FullFailsEarly =>
             /\ head' = head
             /\ \A i \in 1..Len(log') : log'[i][1] \notin {"commit", "push"}]_vars

\* A full resync that poll_atom started over an archive with units ended Ok.
C18_Witness ==
    /\ FullDone
    /\ mode = "poll"
    /\ log[1] = <<"rm_root", 0>>
    /\ Len(log) = 4 + 2 * NumUnits

\* ------------------------------------------------------------------ C19
\* poll_atom is called and returns or goes on to its first external effect.
PollCalled == pc = "idle" /\ (mode' # mode \/ result' # result \/ log' # log \/ pc' # pc)

\* There is no HEAD, or no line of its message is a prefix followed by a
\* timestamp.
NoMarkerInHead ==
    \/ ~head.exists
    \/ \A i \in 1..Len(head.msg) :
           ~(head.msg[i].prefix /\ ParseTime(head.msg[i].rest).ok)

\* C19: when get_last_known_timestamp fails (HEAD carries no parseable
\* marker, or there is no HEAD), poll_atom returns an error and has fetched
\* no unit, staged no removal or addition, and made no commit and no push.
C19_NoLedgerNoWork ==
    [][(PollCalled /\ NoMarkerInHead) =>
          /\ pc' = "idle"
          /\ result' \in {"ledger_error", "feed_error"}
          /\ log' = <<>>
          /\ head' = head
          /\ dirs' = dirs
          /\ lastFetch' = lastFetch]_vars

\* poll_atom returned the ledger's error over somebody else's HEAD and a
\* feed with entries, none of them fetched.
C19_Witness ==
    /\ mode = "poll"
    /\ result = "ledger_error"
    /\ head.exists /\ head.author = "other"
    /\ Len(feed) >= 2
    /\ NoBadDate
    /\ log = <<>>

\* ------------------------------------------------------------------ C20
\* countries_root.join(slug) for the url at hand
UnitDir == PathJoin(countries_root, dir_name(url, platform).name)

\* The other unit's page is in the work tree.
OtherUnitKept == OtherPage \in DOMAIN tree

\* C20: for every url that dir_name accepts the unit directory is a strict
\* descendant of the content root, so neither the staged removal in poll_atom
\* nor the removal in fetch_country_dir takes another unit's pages away.
C20_UnitDirBelowRoot ==
    /\ [](dir_name(url, platform).ok =>
             /\ IsPrefix(countries_root, UnitDir)
             /\ Len(UnitDir) > Len(countries_root))
    /\ [][OtherUnitKept => OtherUnitKept']_vars

\* ------------------------------------------------------------------ C21
\* Some entry that get_new_atom_entries returned has no text/html link.
NewUnlinked == \E i \in 1..Len(new_entries) : new_entries[i].url = NoLink

\* C21: every entry the incremental loop of poll_atom reaches has a
\* text/html link, so the unwrap of the link lookup never panics: new entries
\* with an unlinked one among them make has_duplicates true and send the
\* cycle to fetch_all before the loop runs.
C21_LoopEntriesLinked ==
    /\ pc # "panicked"
    /\ pc \in IncPcs =>
          /\ \A i \in 1..Len(todo) : todo[i].url # NoLink
          /\ ~NewUnlinked
    /\ (mode \in {"poll", "discover"} /\ NewUnlinked) =>
          /\ has_duplicates(new_entries)
          /\ log # <<>> => log[1][1] \in {"rm_root", "list"}

\* poll_atom went to fetch_all over new entries that are not the whole feed
\* and repeat no url, one of them without a link.
C21_Witness ==
    /\ mode = "poll"
    /\ pc \in FaPcs
    /\ NewUnlinked
    /\ Len(new_entries) = 2
    /\ Len(new_entries) < Len(feed)
    /\ new_entries[1].url # new_entries[2].url
====
